---- MODULE Spec2Model ----
(***************************************************************************)
(* Support/resistance detection and survival tracking of                   *)
(* OOOpen/wrangler/supports.py.                                            *)
(*                                                                         *)
(* A DataFrame is a sequence of rows; every row is a record whose field    *)
(* `id` is the row's index label.  The index label of a bar is the pair    *)
(* <<symbol, date>> (the source uses the string symbol + YYYYMMDD, whose   *)
(* last eight characters id_to_date parses back into the date).            *)
(* A boolean matrix is a record [columns, rows]: `columns` the sequence of *)
(* column labels and `rows` a sequence of [id, cells], cells[j] being the  *)
(* value under columns[j].                                                 *)
(* A cell of a column that pandas fills by index alignment is a set: {v}   *)
(* when the aligned Series has the label, {} (NaN / NaT) when it has not.  *)
(* Prices are positive integers and thresh is the rational                 *)
(* thresh[1] / thresh[2]; a comparison  a / b < thresh  with b > 0 is      *)
(* computed as  a * thresh[2] < thresh[1] * b.                             *)
(***************************************************************************)
EXTENDS Integers, Sequences, FiniteSets, TLC

\* ------------------------------------------------------------------ inputs
\* longest bar series
NBars == 6

Symbol == "S"
Prices == 1..4
\* the values of thresh the runs are made with: 1/3 and 1/2
Thresholds == {<<1, 3>>, <<1, 2>>}

\* a flat bar has low = close = high
FlatBars == {[low |-> p, close |-> p, high |-> p] : p \in Prices}

\* a wide bar spans the whole price range and closes at its low or its high
WideBars == {[low |-> 1, close |-> c, high |-> 4] : c \in {1, 4}}

\* the bar series built from the shapes f[1], ..., f[n], one bar a day
MkSeries(f) ==
    [k \in 1..Len(f) |->
        [id |-> <<Symbol, k>>, symbol |-> Symbol, date |-> k,
         low |-> f[k].low, close |-> f[k].close, high |-> f[k].high,
         volume |-> 100 + k]]

\* s is a series of 1 to NBars bars, all of them flat but at most one
IsSeries(s) ==
    \E n \in 1..NBars : \E f \in [1..n -> FlatBars] :
        \/ s = MkSeries(f)
        \/ \E w \in 1..n : \E b \in WideBars : s = MkSeries([f EXCEPT ![w] = b])

\* ----------------------------------------------------------------- helpers
\* numpy abs
Abs(x) == IF x < 0 THEN 0 - x ELSE x

\* (-1) ** resistances
Sign(resistances) == IF resistances THEN 0 - 1 ELSE 1

\* numer / denom < thresh, for denom > 0
LtThresh(numer, denom, th) == numer * th[2] < th[1] * denom

\* NaN / NaT: the label is missing from the aligned Series
Missing == {}

\* utils.id_to_date: the date held in the last characters of an index label
id_to_date(id) == id[2]

\* the sequence f[1], ..., f[n], every element computed once
RECURSIVE ArrayUpTo(_, _)
ArrayUpTo(f, n) == IF n = 0 THEN <<>> ELSE Append(ArrayUpTo(f, n - 1), f[n])

\* the sequence row(1), ..., row(n)
Rows(n, row(_)) == ArrayUpTo([k \in 1..n |-> row(k)], n)

\* the n x m array of the cells cell(i, j)
Matrix(n, m, cell(_, _)) ==
    ArrayUpTo([i \in 1..n |-> ArrayUpTo([j \in 1..m |-> cell(i, j)], m)], n)

\* DataFrame.index, as a sequence and as a set
IndexOf(df) == Rows(Len(df), LAMBDA k : df[k].id)
IndexSet(df) == {df[k].id : k \in 1..Len(df)}

\* DataFrame.loc[id]: the (first) row labelled id
Loc(df, id) ==
    df[CHOOSE k \in 1..Len(df) :
          df[k].id = id /\ \A m \in 1..(k - 1) : df[m].id # id]

\* the cell a column assigned from the Series s gets at label id
Aligned(s, id) ==
    IF id \in IndexSet(s) THEN {Loc(s, id).value} ELSE Missing

\* x[mask]: the rows of x whose mask is true, in order
RECURSIVE BoolIndexFrom(_, _, _)
BoolIndexFrom(x, mask, k) ==
    IF k > Len(x) THEN <<>>
    ELSE (IF mask[k] THEN <<x[k]>> ELSE <<>>) \o BoolIndexFrom(x, mask, k + 1)

BoolIndex(x, mask) == BoolIndexFrom(x, mask, 1)

\* DataFrame.sort_values("date") / sort_index(): a stable insertion sort on
\* the date of the row label (labels of one symbol order as their dates do)
RECURSIVE InsertByDate(_, _)
InsertByDate(sorted, row) ==
    IF sorted = <<>> THEN <<row>>
    ELSE IF id_to_date(sorted[Len(sorted)].id) <= id_to_date(row.id)
         THEN Append(sorted, row)
         ELSE Append(InsertByDate(SubSeq(sorted, 1, Len(sorted) - 1), row),
                     sorted[Len(sorted)])

RECURSIVE SortByDateFrom(_, _)
SortByDateFrom(df, k) ==
    IF k = 0 THEN <<>> ELSE InsertByDate(SortByDateFrom(df, k - 1), df[k])

SortByDate(df) == SortByDateFrom(df, Len(df))

\* number of true cells of a row: row.sum()
RECURSIVE CountTrue(_, _)
CountTrue(cells, k) ==
    IF k = 0 THEN 0
    ELSE CountTrue(cells, k - 1) + (IF cells[k] THEN 1 ELSE 0)

\* mutant of RowSum: one more than the true cells
RowSumPlusOne(cells) == CountTrue(cells, Len(cells)) + 1

RowSum(cells) == CountTrue(cells, Len(cells))

\* ------------------------------------------------------ extremum detection
\* mutant of get_sup_func: a bar equal to a neighbour qualifies
get_sup_func_ties(a, b, c) == a >= b /\ b <= c

get_sup_func(a, b, c) == a > b /\ b < c

get_res_func(a, b, c) == a < b /\ b > c

\* rolling(3, center=True).agg(func).fillna(0).astype(bool) at row k: the
\* window of the first and of the last row is incomplete (NaN -> 0 -> False)
RollingAgg(x, value_col, resistances, k) ==
    IF k = 1 \/ k = Len(x) THEN FALSE
    ELSE IF resistances
         THEN get_res_func(x[k - 1][value_col], x[k][value_col], x[k + 1][value_col])
         ELSE get_sup_func(x[k - 1][value_col], x[k][value_col], x[k + 1][value_col])

get_days(x, value_col, resistances) ==
    BoolIndex(x, Rows(Len(x), LAMBDA k : RollingAgg(x, value_col, resistances, k)))

\* ------------------------------------------------------- survival tracking
\* mutant of get_compatible_dates: the day of x1[i] itself counts as later
get_compatible_dates_inclusive(x1, x2) ==
    Matrix(Len(x1), Len(x2), LAMBDA i, j : x1[i].date - x2[j].date <= 0)

\* cell (i, j): day x2[j] is later than day x1[i]
get_compatible_dates(x1, x2) ==
    Matrix(Len(x1), Len(x2), LAMBDA i, j : x1[i].date - x2[j].date < 0)

\* mutant of CumProd: the cells themselves, no running product
CumProdPointwise(cells, j) == SubSeq(cells, 1, j)

\* running product along a row, cumprod(axis = 1): the first j products
RECURSIVE CumProd(_, _)
CumProd(cells, j) ==
    IF j = 0 THEN <<>>
    ELSE LET before == CumProd(cells, j - 1)
         IN  Append(before, (j = 1 \/ before[j - 1]) /\ cells[j])

\* idxmax(axis = 1) of a boolean row: the position of its first true cell
FirstTrue(cells) ==
    CHOOSE j \in 1..Len(cells) : cells[j] /\ \A m \in 1..(j - 1) : ~cells[m]

\* ((-1) ** resistances) * nordifval < thresh for reference value ref and
\* compared value comp
Safe(ref, comp, th, resistances) ==
    LtThresh(Sign(resistances) * (ref - comp), ref, th)

\* alive, lines 69-72: safe on a later day, running product along the row,
\* masked again by the later days
AliveDays(sups, data, th, ref_col, resistances, compa) ==
    LET ns == Len(sups)
        nd == Len(data)
        booldif == Matrix(ns, nd, LAMBDA i, j :
                       Safe(sups[i][ref_col], data[j].close, th, resistances))
        alive0 == Matrix(ns, nd, LAMBDA i, j : compa[i][j] /\ booldif[i][j])
        orcomp == Matrix(ns, nd, LAMBDA i, j : (~compa[i][j]) \/ alive0[i][j])
        alive1 == Rows(ns, LAMBDA i : CumProd(orcomp[i], nd))
    IN  Matrix(ns, nd, LAMBDA i, j : compa[i][j] /\ alive1[i][j])

\* breakers, lines 73-74: for every row with a later day it is not alive on,
\* the label of the first such day
BreakingDays(sups, data, compa, alive) ==
    LET ns == Len(sups)
        nd == Len(data)
        breakers0 == Matrix(ns, nd, LAMBDA i, j : (~alive[i][j]) /\ compa[i][j])
        anyrow == Rows(ns, LAMBDA i : \E j \in 1..nd : breakers0[i][j])
        brows == BoolIndex(Rows(ns, LAMBDA i : [id |-> sups[i].id,
                                                cells |-> breakers0[i]]), anyrow)
    IN  Rows(Len(brows), LAMBDA k :
            [id |-> brows[k].id,
             value |-> data[FirstTrue(brows[k].cells)].id])

\* the pair surviving_days returns, from compa and alive
AliveAndBreakers(sups, data, compa, alive) ==
    [alive |-> [columns |-> IndexOf(data),
                rows |-> Rows(Len(sups), LAMBDA i : [id |-> sups[i].id,
                                                     cells |-> alive[i]])],
     breakers |-> BreakingDays(sups, data, compa, alive)]

\* surviving_days once compa is computed
SurvivingAmong(sups, data, th, ref_col, resistances, compa) ==
    AliveAndBreakers(sups, data, compa,
                     AliveDays(sups, data, th, ref_col, resistances, compa))

surviving_days(sups, data, th, ref_col, resistances) ==
    SurvivingAmong(sups, data, th, ref_col, resistances,
                   get_compatible_dates(sups, data))

\* --------------------------------------------------------------- role flip
\* mutant of IdxMin: the first label, whatever its value
IdxFirst(rows, col) == rows[1].id

\* first label, in table order, of the rows with the lowest (highest) col:
\* Series.idxmin / idxmax
IdxMin(rows, col) ==
    rows[CHOOSE k \in 1..Len(rows) :
            /\ \A m \in 1..Len(rows) : rows[k][col] <= rows[m][col]
            /\ \A m \in 1..(k - 1) : rows[m][col] # rows[k][col]].id

IdxMax(rows, col) ==
    rows[CHOOSE k \in 1..Len(rows) :
            /\ \A m \in 1..Len(rows) : rows[k][col] >= rows[m][col]
            /\ \A m \in 1..(k - 1) : rows[m][col] # rows[k][col]].id

\* mutant of DropIndex: nothing is dropped
DropNothing(days, other) == days

\* the days of data that .drop(other.index, errors = "ignore") leaves among
\* the breaking days
DropIndex(days, other) == BoolIndex(days, Rows(Len(days), LAMBDA k :
                              days[k].id \notin IndexSet(other)))

\* tbl.assign(breakers = brk).groupby("breakers")[col].agg(idxmin / idxmax)
\* .drop(other.index, errors = "ignore"): one row per breaking day, in the
\* order of the day labels, holding the label of the selected extremum
\* (rows of tbl whose breaker is missing belong to no group)
GroupBreakers(tbl, brk, data, col, highest, other) ==
    LET days == {brk[k].value : k \in 1..Len(brk)}
        group(day) == BoolIndex(tbl, Rows(Len(tbl), LAMBDA k :
                                        Aligned(brk, tbl[k].id) = {day}))
        grouped == BoolIndex(data, Rows(Len(data), LAMBDA j : data[j].id \in days))
        kept == DropIndex(grouped, other)
    IN  Rows(Len(kept), LAMBDA k :
            [id |-> kept[k].id,
             value |-> IF highest THEN IdxMax(group(kept[k].id), col)
                       ELSE IdxMin(group(kept[k].id), col)])

\* data.loc[aux.index, ["symbol", "date", "volume"]].assign(to_col = the
\* from_col value of the extremum each day broke)
SecondGeneration(aux, data, tbl, from_col, to_col) ==
    Rows(Len(aux), LAMBDA k :
        LET bar == Loc(data, aux[k].id)
        IN  (to_col :> Loc(tbl, aux[k].value)[from_col])
            @@ [id |-> bar.id, symbol |-> bar.symbol, date |-> bar.date,
                volume |-> bar.volume])

\* tbl.assign(age = days.sum(axis = 1), enday = id_to_date(breakers),
\*            ended = breakers.notna(), original = original)
Enrich(tbl, days, breakers, original) ==
    LET endays == Rows(Len(breakers), LAMBDA k :
                      [id |-> breakers[k].id, value |-> id_to_date(breakers[k].value)])
        notna == Rows(Len(breakers), LAMBDA k :
                      [id |-> breakers[k].id, value |-> TRUE])
    IN  Rows(Len(tbl), LAMBDA k :
            tbl[k] @@
            [age |-> RowSum(Loc(days.rows, tbl[k].id).cells),
             enday |-> Aligned(endays, tbl[k].id),
             ended |-> Aligned(notna, tbl[k].id),
             original |-> original])

\* ------------------------------------------------------------- close calls
\* abs(ref - comp) / ref < thresh
Near(ref, comp, th) == LtThresh(Abs(ref - comp), ref, th)

\* mutant of close_days: the days within thresh, alive or not
close_days_unmasked(data, compare, surv, th, reference_col, compare_col, resistances) ==
    [raised |-> FALSE,
     columns |-> IndexOf(compare),
     rows |-> Rows(Len(surv.rows), LAMBDA i :
         [id |-> surv.rows[i].id,
          cells |-> Rows(Len(compare), LAMBDA j :
              Near(data[i][reference_col], compare[j][compare_col], th))])]

\* pbreachers and dates are computed and never used: the result has one
\* column for every day of compare
close_days(data, compare, surv, th, reference_col, compare_col, resistances) ==
    LET pbreachers == get_days(compare, compare_col, resistances)
        dates == get_compatible_dates(data, pbreachers)
    IN  IF IndexOf(data) # IndexOf(surv.rows)
        THEN [raised |-> TRUE, columns |-> <<>>, rows |-> <<>>]
        ELSE [raised |-> FALSE,
              columns |-> IndexOf(compare),
              rows |-> Rows(Len(surv.rows), LAMBDA i :
                  [id |-> surv.rows[i].id,
                   cells |-> Rows(Len(compare), LAMBDA j :
                       /\ surv.rows[i].cells[j]
                       /\ Near(data[i][reference_col], compare[j][compare_col], th))])]

\* --------------------------------------------- get_supports_resistances
\* tbl[["symbol", "date", ref_col, "volume"]]
Project(rows, ref_col) ==
    Rows(Len(rows), LAMBDA k :
        (ref_col :> rows[k][ref_col])
        @@ [id |-> rows[k].id, symbol |-> rows[k].symbol,
            date |-> rows[k].date, volume |-> rows[k].volume])

\* tbl.assign(close = cl.sum(axis = 1))
WithClose(tbl, cl) ==
    Rows(Len(tbl), LAMBDA k :
        tbl[k] @@ [close |-> RowSum(Loc(cl.rows, tbl[k].id).cells)])

\* cl.columns = id_to_date(cl.columns)
Dated(cl) ==
    [columns |-> Rows(Len(cl.columns), LAMBDA j : id_to_date(cl.columns[j])),
     rows |-> cl.rows]

\* days.append(days2).sort_index()
AppendDays(days, days2) ==
    [columns |-> days.columns, rows |-> SortByDate(days.rows \o days2.rows)]

\* lines 221-227: the close counts, the dated close columns, the final sort
Returned(sup, sdays, sclose, res, rdays, rclose) ==
    IF sclose.raised \/ rclose.raised
    THEN [raised |-> TRUE]
    ELSE [raised |-> FALSE,
          sup_info |-> SortByDate(WithClose(sup, sclose)),
          sup_days |-> sdays,
          sup_close |-> Dated(sclose),
          res_info |-> SortByDate(WithClose(res, rclose)),
          res_days |-> rdays,
          res_close |-> Dated(rclose)]

\* lines 216-219: the close calls of the merged tables
CloseCalls(data, th, sup, sdays, res, rdays) ==
    Returned(sup, sdays, close_days(sup, data, sdays, th, "low", "close", FALSE),
             res, rdays, close_days(res, data, rdays, th, "high", "close", TRUE))

\* lines 201-211: the second generation is enriched and appended to the first
Merged(data, th, sup, res, s1, r1, second_supports, second_resistances, s2, r2) ==
    CloseCalls(data, th,
        SortByDate(sup \o Enrich(second_supports, s2.alive, s2.breakers, FALSE)),
        AppendDays(s1.alive, s2.alive),
        SortByDate(res \o Enrich(second_resistances, r2.alive, r2.breakers, FALSE)),
        AppendDays(r1.alive, r2.alive))

\* lines 199-200: survival of the second generation
SecondSurvival(data, th, sup, res, s1, r1, second_supports, second_resistances) ==
    Merged(data, th, sup, res, s1, r1, second_supports, second_resistances,
        surviving_days(second_supports, data, th, "low", FALSE),
        surviving_days(second_resistances, data, th, "high", TRUE))

\* lines 176-196: the days that broke a resistance become supports and the
\* days that broke a support become resistances
RoleFlip(data, th, sup, res, s1, r1) ==
    SecondSurvival(data, th, sup, res, s1, r1,
        SecondGeneration(GroupBreakers(res, r1.breakers, data, "high", TRUE, sup),
                         data, res, "high", "low"),
        SecondGeneration(GroupBreakers(sup, s1.breakers, data, "low", FALSE, res),
                         data, sup, "low", "high"))

\* lines 162-168: survival of the first generation, and its enrichment
FirstSurvival(data, th, sup, res, s1, r1) ==
    RoleFlip(data, th, Enrich(sup, s1.alive, s1.breakers, TRUE),
             Enrich(res, r1.alive, r1.breakers, TRUE), s1, r1)

\* lines 158-159: the local minima of low and the local maxima of high
FirstGeneration(data, th, sup, res) ==
    FirstSurvival(data, th, sup, res,
        surviving_days(sup, data, th, "low", FALSE),
        surviving_days(res, data, th, "high", TRUE))

\* line 157: everything is computed on the bars sorted by date
Sorted(data, th) ==
    FirstGeneration(data, th, Project(get_days(data, "low", FALSE), "low"),
                    Project(get_days(data, "high", TRUE), "high"))

get_supports_resistances(input, th) == Sorted(SortByDate(input), th)

\* -------------------------------------------------------- daily projection
\* position of the column labelled label
ColumnOf(columns, label) == CHOOSE j \in 1..Len(columns) : columns[j] = label

\* mutant of Candidates: every row of info, alive on day x or not
AllRows(x, info, comp) == info

\* info[comp[x.name]]: the rows of info whose extremum is alive on day x
Candidates(x, info, comp) ==
    LET j == ColumnOf(comp.columns, x.id)
    IN  BoolIndex(info, Rows(Len(info), LAMBDA k : Loc(comp.rows, info[k].id).cells[j]))

\* ((candidates[ref_col] - x["close"]) / x["close"]).abs().idxmin(); the
\* divisor x["close"] > 0 is the same for every candidate
Closest(x, candidates, ref_col) ==
    IdxMin(Rows(Len(candidates), LAMBDA k :
               [id |-> candidates[k].id,
                value |-> Abs(candidates[k][ref_col] - x.close)]), "value")

\* comp.loc[id_, :x.name].shape[0]: the number of columns up to day x
AgeAt(x, comp) == ColumnOf(comp.columns, x.id)

\* close.loc[id_, :x["date"]].sum()
CloseUpTo(x, id_, close) ==
    LET cells == Loc(close.rows, id_).cells
    IN  Cardinality({j \in 1..Len(close.columns) :
                        close.columns[j] <= x.date /\ cells[j]})

get_closest_support(x, info, comp, close) ==
    LET candidates == Candidates(x, info, comp)
        id_ == Closest(x, candidates, "low")
    IN  IF candidates = <<>>
        THEN [sup_val |-> 0, sup_vol |-> 0 - 1, sup_age |-> 0, sup_close |-> 0]
        ELSE [sup_val |-> Loc(info, id_).low, sup_vol |-> Loc(info, id_).volume,
              sup_age |-> AgeAt(x, comp), sup_close |-> CloseUpTo(x, id_, close)]

get_closest_resitances(x, info, comp, close) ==
    LET candidates == Candidates(x, info, comp)
        id_ == Closest(x, candidates, "high")
    IN  IF candidates = <<>>
        THEN [res_val |-> 2 * x.close, res_vol |-> 0 - 1, res_age |-> 0, res_close |-> 0]
        ELSE [res_val |-> Loc(info, id_).high, res_vol |-> Loc(info, id_).volume,
              res_age |-> AgeAt(x, comp), res_close |-> CloseUpTo(x, id_, close)]

\* ------------------------------------------------------------ state machine
VARIABLES
    data,       \* the bar series of the run
    thresh,     \* the run's thresh, <<numerator, denominator>>
    pc,         \* "start", "computed", "res_added", "done" or "raised"
    supinfo, supdays, supclose,     \* the three support artifacts
    resinfo, resdays, resclose,     \* the three resistance artifacts
    res_cols,   \* the columns add_resistances appends, one record a bar
    sup_cols,   \* the columns add_supports appends, one record a bar
    store,      \* the symbol's artifact directory: file name -> {} or {content}
    found,      \* the files of needed the run found in the store
    source,     \* "none", "loaded" or "computed": where the run's artifacts come from
    runs        \* number of runs of process_supports_resistances so far

vars == <<data, thresh, pc, supinfo, supdays, supclose,
          resinfo, resdays, resclose, res_cols, sup_cols,
          store, found, source, runs>>

\* the artifact store and what a run has seen of it
cache == <<store, found, source, runs>>

artifacts == <<supinfo, supdays, supclose, resinfo, resdays, resclose>>

EmptyMatrix == [columns |-> <<>>, rows |-> <<>>]

\* the six artifact files, in the order of the returned tuple
needed == <<"sup_info.pickle", "sup_days.pickle", "sup_close.pickle",
            "res_info.pickle", "res_days.pickle", "res_close.pickle">>

Files == {needed[n] : n \in 1..Len(needed)}

\* the artifact directory before any run
NoFiles == [f \in Files |-> {}]

Init ==
    /\ IsSeries(data)
    /\ thresh \in Thresholds
    /\ pc = "start"
    /\ supinfo = <<>> /\ supdays = EmptyMatrix /\ supclose = EmptyMatrix
    /\ resinfo = <<>> /\ resdays = EmptyMatrix /\ resclose = EmptyMatrix
    /\ res_cols = <<>>
    /\ sup_cols = <<>>
    /\ store = NoFiles
    /\ found = {}
    /\ source = "none"
    /\ runs = 1

GetSupportsResistances ==
    /\ pc = "start"
    /\ \E elements \in {get_supports_resistances(data, thresh)} :
           IF elements.raised
           THEN /\ pc' = "raised"
                /\ UNCHANGED artifacts
           ELSE /\ pc' = "computed"
                /\ supinfo' = elements.sup_info
                /\ supdays' = elements.sup_days
                /\ supclose' = elements.sup_close
                /\ resinfo' = elements.res_info
                /\ resdays' = elements.res_days
                /\ resclose' = elements.res_close
    /\ UNCHANGED <<data, thresh, res_cols, sup_cols, cache>>

\* comp[x.name] raises KeyError for a day that is no column of comp
HasColumns(x, comp) ==
    \A k \in 1..Len(x) : \E j \in 1..Len(comp.columns) : comp.columns[j] = x[k].id

AddResistances ==
    /\ pc = "computed"
    /\ IF HasColumns(data, resdays)
       THEN /\ res_cols' = Rows(Len(data), LAMBDA k :
                       get_closest_resitances(data[k], resinfo, resdays, resclose))
            /\ pc' = "res_added"
       ELSE /\ pc' = "raised"
            /\ UNCHANGED res_cols
    /\ UNCHANGED <<data, thresh, artifacts, sup_cols, cache>>

AddSupports ==
    /\ pc = "res_added"
    /\ IF HasColumns(data, supdays)
       THEN /\ sup_cols' = Rows(Len(data), LAMBDA k :
                       get_closest_support(data[k], supinfo, supdays, supclose))
            /\ pc' = "done"
       ELSE /\ pc' = "raised"
            /\ UNCHANGED sup_cols
    /\ UNCHANGED <<data, thresh, artifacts, res_cols, cache>>

Next == GetSupportsResistances \/ AddResistances \/ AddSupports

Spec == Init /\ [][Next]_vars

\* ------------------------------------------- runs against the artifact store
\* runs of process_supports_resistances for the one symbol
MaxRuns == 2

\* the series of the runs against the store: flat bars, at most half as
\* many as in the longest series
IsShortSeries(s) ==
    \E n \in 1..(NBars \div 2) : \E f \in [1..n -> FlatBars] : s = MkSeries(f)

\* the tuple get_supports_resistances returns
Elements(e) ==
    <<e.sup_info, e.sup_days, e.sup_close, e.res_info, e.res_days, e.res_close>>

\* mutant of AllFiles: one file of needed is enough
AnyFile(st) == \E f \in Files : st[f] # {}

\* all(f.is_file() for f in needed)
AllFiles(st) == \A f \in Files : st[f] # {}

\* read_pickle(p): the content of the file
ReadPickle(st, f) == CHOOSE e \in st[f] : TRUE

\* for n, e in zip(needed, elements): e.to_pickle(n), the first n writes done
ToPickle(st, elements, n) ==
    [f \in Files |->
        IF \E i \in 1..n : needed[i] = f
        THEN {elements[CHOOSE i \in 1..n : needed[i] = f]}
        ELSE st[f]]

CacheInit ==
    /\ IsShortSeries(data)
    /\ thresh \in Thresholds
    /\ pc = "start"
    /\ supinfo = <<>> /\ supdays = EmptyMatrix /\ supclose = EmptyMatrix
    /\ resinfo = <<>> /\ resdays = EmptyMatrix /\ resclose = EmptyMatrix
    /\ res_cols = <<>>
    /\ sup_cols = <<>>
    /\ store = NoFiles
    /\ found = {}
    /\ source = "none"
    /\ runs = 1

\* process_supports_resistances up to the projection: the artifacts are read
\* from the store when all six files are there, and are computed and written
\* otherwise.  A read of a missing file raises; a write may fail, which ends
\* the run after the first n files are written.
ProcessSupportsResistances ==
    /\ pc = "start"
    /\ found' = {f \in Files : store[f] # {}}
    /\ IF AllFiles(store)
       THEN /\ source' = "loaded"
            /\ UNCHANGED store
            /\ IF \E f \in Files : store[f] = {}
               THEN /\ pc' = "raised"
                    /\ UNCHANGED artifacts
               ELSE /\ pc' = "computed"
                    /\ supinfo' = ReadPickle(store, needed[1])
                    /\ supdays' = ReadPickle(store, needed[2])
                    /\ supclose' = ReadPickle(store, needed[3])
                    /\ resinfo' = ReadPickle(store, needed[4])
                    /\ resdays' = ReadPickle(store, needed[5])
                    /\ resclose' = ReadPickle(store, needed[6])
       ELSE /\ source' = "computed"
            /\ \E elements \in {get_supports_resistances(data, thresh)} :
                   IF elements.raised
                   THEN /\ pc' = "raised"
                        /\ UNCHANGED <<artifacts, store>>
                   ELSE \E n \in 0..Len(needed) :
                       /\ store' = ToPickle(store, Elements(elements), n)
                       /\ IF n < Len(needed)
                          THEN /\ pc' = "raised"
                               /\ UNCHANGED artifacts
                          ELSE /\ pc' = "computed"
                               /\ supinfo' = elements.sup_info
                               /\ supdays' = elements.sup_days
                               /\ supclose' = elements.sup_close
                               /\ resinfo' = elements.res_info
                               /\ resdays' = elements.res_days
                               /\ resclose' = elements.res_close
    /\ UNCHANGED <<data, thresh, res_cols, sup_cols, runs>>

\* the next call of process_supports_resistances for the symbol, with its
\* own bars and thresh, against the store as the runs before left it
NextRun ==
    /\ pc \in {"done", "raised"}
    /\ runs < MaxRuns
    /\ runs' = runs + 1
    /\ IsShortSeries(data')
    /\ thresh' \in Thresholds
    /\ pc' = "start"
    /\ supinfo' = <<>> /\ supdays' = EmptyMatrix /\ supclose' = EmptyMatrix
    /\ resinfo' = <<>> /\ resdays' = EmptyMatrix /\ resclose' = EmptyMatrix
    /\ res_cols' = <<>>
    /\ sup_cols' = <<>>
    /\ found' = {}
    /\ source' = "none"
    /\ UNCHANGED store

CacheNext == ProcessSupportsResistances \/ AddResistances \/ AddSupports \/ NextRun

CacheSpec == CacheInit /\ [][CacheNext]_vars

\* ============================================================== properties
\* get_supports_resistances has returned its six artifacts
Computed == pc \in {"computed", "res_added", "done"}

\* the safe condition of an extremum with reference value ref on a day
\* closing at c: the normalized distance is below thresh
SafeDay(ref, c, resistances) ==
    IF resistances THEN (c - ref) * thresh[2] < thresh[1] * ref
    ELSE (ref - c) * thresh[2] < thresh[1] * ref

\* the days within thresh of the reference value
NearDay(ref, c) ==
    IF ref >= c THEN (ref - c) * thresh[2] < thresh[1] * ref
    ELSE (c - ref) * thresh[2] < thresh[1] * ref

\* no day later than born and up to day j fails the safe condition
SafeThrough(ref, born, j, resistances) ==
    \A k \in 1..Len(data) :
        (born < data[k].date /\ data[k].date <= data[j].date)
            => SafeDay(ref, data[k].close, resistances)

\* row i of the alive matrix days is true exactly on the days from its
\* creation day (included or not) up to the day before its first unsafe day
AliveIff(info, days, ref_col, resistances, inclusive) ==
    \A i \in 1..Len(days.rows) :
        LET ref == Loc(info, days.rows[i].id)[ref_col]
            born == id_to_date(days.rows[i].id)
        IN  \A j \in 1..Len(data) :
                days.rows[i].cells[j] <=>
                    /\ IF inclusive THEN data[j].date >= born
                       ELSE data[j].date > born
                    /\ SafeThrough(ref, born, j, resistances)

\* C1 as stated: alive[i, j] is true iff bar j is at or after extremum i's
\* creation day (that day included) and no day k with
\* date(i) < date(k) <= date(j) fails the safe condition.
C1_AliveFromCreationDay ==
    Computed => /\ AliveIff(supinfo, supdays, "low", FALSE, TRUE)
                /\ AliveIff(resinfo, resdays, "high", TRUE, TRUE)

\* C1 amended: alive[i, j] is true iff bar j is strictly after extremum i's
\* creation day (on the creation day itself the row is false) and no day k
\* with date(i) < date(k) <= date(j) fails the safe condition.
C1_AliveAfterCreationDay ==
    Computed => /\ AliveIff(supinfo, supdays, "low", FALSE, FALSE)
                /\ AliveIff(resinfo, resdays, "high", TRUE, FALSE)

\* C1 witness: some support is alive on a day after its creation and dead
\* on a later one, and so is some resistance
C1_Witness ==
    /\ Computed
    /\ \E i \in 1..Len(supdays.rows) : \E j, m \in 1..Len(data) :
          j < m /\ supdays.rows[i].cells[j] /\ ~supdays.rows[i].cells[m]
    /\ \E i \in 1..Len(resdays.rows) : \E j, m \in 1..Len(data) :
          j < m /\ resdays.rows[i].cells[j] /\ ~resdays.rows[i].cells[m]

\* number of bars from date born to the end of the series, the bar of born
\* itself counted or not
BarsFrom(born) == Cardinality({j \in 1..Len(data) : data[j].date >= born})
BarsAfter(born) == Cardinality({j \in 1..Len(data) : data[j].date > born})

\* C2 as stated: age[i] is at most the number of bars from extremum i's date
\* to the end of the series, its own bar counted, and equals that number iff
\* the extremum's ended is not true.
C2_AgeCountsOwnBar ==
    Computed =>
        \A info \in {supinfo, resinfo} : \A k \in 1..Len(info) :
            /\ info[k].age <= BarsFrom(info[k].date)
            /\ (info[k].age = BarsFrom(info[k].date)) <=> (info[k].ended # {TRUE})

\* C2 amended: age[i] is at most the number of bars strictly after extremum
\* i's date (its own bar not counted), and equals that number iff the
\* extremum's ended is not true.
C2_AgeCountsLaterBars ==
    Computed =>
        \A info \in {supinfo, resinfo} : \A k \in 1..Len(info) :
            /\ info[k].age <= BarsAfter(info[k].date)
            /\ (info[k].age = BarsAfter(info[k].date)) <=> (info[k].ended # {TRUE})

\* C2 witness: a table holds a breached extremum that lived at least a day,
\* an unbreached one with later bars, and an extremum of the second
\* generation
C2_Witness ==
    /\ Computed
    /\ \E k, m, q \in 1..Len(supinfo) :
          /\ supinfo[k].ended = {TRUE} /\ supinfo[k].age > 0
          /\ supinfo[m].ended # {TRUE} /\ supinfo[m].age > 0
          /\ ~supinfo[q].original

\* C3: in every row of the alive matrices, a day after the creation day on
\* which the row is false is followed by false days only, whatever the
\* later closes are.
C3_AbsorbingDeath ==
    Computed =>
        \A days \in {supdays, resdays} : \A i \in 1..Len(days.rows) :
            \A j, m \in 1..Len(data) :
                (/\ id_to_date(days.rows[i].id) < data[j].date
                 /\ data[j].date < data[m].date
                 /\ ~days.rows[i].cells[j])
                    => ~days.rows[i].cells[m]

\* C3 witness: a support is breached and a later day closes on its safe
\* side again, and the same for a resistance
C3_Witness ==
    /\ Computed
    /\ \E k \in 1..Len(supinfo) : \E j, m \in 1..Len(data) :
          /\ supinfo[k].date < data[j].date /\ data[j].date < data[m].date
          /\ ~SafeDay(supinfo[k].low, data[j].close, FALSE)
          /\ SafeDay(supinfo[k].low, data[m].close, FALSE)
    /\ \E k \in 1..Len(resinfo) : \E j, m \in 1..Len(data) :
          /\ resinfo[k].date < data[j].date /\ data[j].date < data[m].date
          /\ ~SafeDay(resinfo[k].high, data[j].close, TRUE)
          /\ SafeDay(resinfo[k].high, data[m].close, TRUE)

SetMin(S) == CHOOSE x \in S : \A y \in S : x <= y
SetMax(S) == CHOOSE x \in S : \A y \in S : x >= y

\* the dates after the creation of row k of info that fail its safe condition
UnsafeDates(info, k, ref_col, resistances) ==
    {data[j].date : j \in {m \in 1..Len(data) :
        /\ data[m].date > info[k].date
        /\ ~SafeDay(info[k][ref_col], data[m].close, resistances)}}

\* the end day of every row of info is its earliest unsafe date and ended is
\* true; a row with no unsafe date has no end day and ended = false
BreachRecorded(info, ref_col, resistances) ==
    \A k \in 1..Len(info) :
        LET unsafe == UnsafeDates(info, k, ref_col, resistances)
        IN  IF unsafe # {}
            THEN info[k].ended = {TRUE} /\ info[k].enday = {SetMin(unsafe)}
            ELSE info[k].enday = Missing /\ info[k].ended = {FALSE}

\* C4: the breach day of every extremum is the earliest day strictly after
\* its creation day on which the safe condition fails, recorded as
\* ended = true and end day = that date; an extremum with no such day has
\* an undefined end day and ended = false.
C4_BreachDayRecorded ==
    Computed => /\ BreachRecorded(supinfo, "low", FALSE)
                /\ BreachRecorded(resinfo, "high", TRUE)

\* day j is a local maximum (minimum) of the close column
LocalMaxClose(j) ==
    /\ 1 < j /\ j < Len(data)
    /\ data[j - 1].close < data[j].close /\ data[j].close > data[j + 1].close

LocalMinClose(j) ==
    /\ 1 < j /\ j < Len(data)
    /\ data[j - 1].close > data[j].close /\ data[j].close < data[j + 1].close

\* day j tests the extremum id: a local maximum of close for a support, a
\* local minimum for a resistance, within thresh and alive
TestDay(info, days, id, j, ref_col, resistances) ==
    /\ IF resistances THEN LocalMinClose(j) ELSE LocalMaxClose(j)
    /\ NearDay(Loc(info, id)[ref_col], data[j].close)
    /\ Loc(days.rows, id).cells[j]

CloseCallsAreTestDays(info, days, close, ref_col, resistances) ==
    \A i \in 1..Len(close.rows) :
        LET id == close.rows[i].id
        IN  /\ \A j \in 1..Len(data) :
                  close.rows[i].cells[j]
                      => TestDay(info, days, id, j, ref_col, resistances)
            /\ Loc(info, id).close =
                  Cardinality({j \in 1..Len(data) :
                                  TestDay(info, days, id, j, ref_col, resistances)})

\* C5: close[i, j] is true only if day j is a local extremum of the compare
\* column (a local maximum for supports, a local minimum for resistances),
\* within thresh of the reference value and alive; close_count[i] is the
\* number of such days.
C5_CloseCallsOnLocalExtrema ==
    Computed => /\ CloseCallsAreTestDays(supinfo, supdays, supclose, "low", FALSE)
                /\ CloseCallsAreTestDays(resinfo, resdays, resclose, "high", TRUE)

\* C6: no bar is both an original support and a derived resistance, nor
\* both an original resistance and a derived support.
C6_NoOriginalAndDerived ==
    Computed =>
        \A k \in 1..Len(supinfo) : \A m \in 1..Len(resinfo) :
            (supinfo[k].date = resinfo[m].date)
                => (supinfo[k].original <=> resinfo[m].original)

\* the values, in column ref_col, of the first-generation rows of info whose
\* breach day is D
BrokenOn(info, D, ref_col) ==
    {info[k][ref_col] : k \in {m \in 1..Len(info) :
        info[m].original /\ info[m].enday = {D}}}

\* the rows of info of the second generation dated D
DerivedOn(info, D) ==
    {k \in 1..Len(info) : ~info[k].original /\ info[k].date = D}

\* D is the date of a first-generation row of info
OriginalOn(info, D) == \E k \in 1..Len(info) : info[k].original /\ info[k].date = D

\* C7: for every day D that breaches first-generation supports and is not
\* itself a first-generation resistance there is exactly one derived
\* resistance dated D, its value the lowest among the supports broken on
\* D; for every day that breaches first-generation resistances and is not a
\* first-generation support, exactly one derived support, its value the
\* highest among the resistances broken that day.
C7_RoleFlipTieBreak ==
    Computed =>
        \A j \in 1..Len(data) :
            LET D == data[j].date
            IN  /\ (BrokenOn(supinfo, D, "low") # {} /\ ~OriginalOn(resinfo, D))
                      => /\ Cardinality(DerivedOn(resinfo, D)) = 1
                         /\ \A k \in DerivedOn(resinfo, D) :
                               resinfo[k].high = SetMin(BrokenOn(supinfo, D, "low"))
                /\ (BrokenOn(resinfo, D, "high") # {} /\ ~OriginalOn(supinfo, D))
                      => /\ Cardinality(DerivedOn(supinfo, D)) = 1
                         /\ \A k \in DerivedOn(supinfo, D) :
                               supinfo[k].low = SetMax(BrokenOn(resinfo, D, "high"))

\* C7 witness: one day breaches two first-generation supports of different
\* values and becomes a derived resistance
C7_Witness ==
    /\ Computed
    /\ \E j \in 1..Len(data) :
          /\ Cardinality(BrokenOn(supinfo, data[j].date, "low")) > 1
          /\ DerivedOn(resinfo, data[j].date) # {}

\* one day breaches two first-generation resistances of different values and
\* becomes a derived support
C7_WitnessResistances ==
    /\ Computed
    /\ \E j \in 1..Len(data) :
          /\ Cardinality(BrokenOn(resinfo, data[j].date, "high")) > 1
          /\ DerivedOn(supinfo, data[j].date) # {}

\* no two rows of info carry the same date
DatesOnce(info) ==
    \A k, m \in 1..Len(info) : (info[k].date = info[m].date) => (k = m)

\* C8: a derived resistance is dropped when its day is already a
\* first-generation resistance and a derived support when its day is
\* already a first-generation support: in each info table every date
\* appears at most once, and the rows of the merged info table and of the
\* merged alive matrix carry the same set of identifiers (close_days does
\* not raise).
C8_DedupOnTargetPolarity ==
    /\ pc # "raised"
    /\ Computed =>
          /\ DatesOnce(supinfo) /\ DatesOnce(resinfo)
          /\ IndexSet(supinfo) = IndexSet(supdays.rows)
          /\ IndexSet(resinfo) = IndexSet(resdays.rows)
          /\ Len(supinfo) = Len(supdays.rows)
          /\ Len(resinfo) = Len(resdays.rows)

\* C8 witness: a day that breaches a first-generation support is itself a
\* first-generation resistance, so the derived resistance is dropped
C8_Witness ==
    /\ Computed
    /\ \E j \in 1..Len(data) :
          /\ BrokenOn(supinfo, data[j].date, "low") # {}
          /\ OriginalOn(resinfo, data[j].date)

\* a day that breaches a first-generation resistance is itself a
\* first-generation support, so the derived support is dropped
C8_WitnessSupports ==
    /\ Computed
    /\ \E j \in 1..Len(data) :
          /\ BrokenOn(resinfo, data[j].date, "high") # {}
          /\ OriginalOn(supinfo, data[j].date)

\* the close calls of info are at most its ages, and no day on which a row
\* of days is false is a close call
CloseWithinAlive(info, days, close) ==
    /\ \A k \in 1..Len(info) : info[k].close <= info[k].age
    /\ \A i \in 1..Len(close.rows) : \A j \in 1..Len(data) :
          close.rows[i].cells[j] => Loc(days.rows, close.rows[i].id).cells[j]

\* C9: close_count[i] <= age[i] for every extremum of either generation and
\* polarity; no day on which the extremum is not alive (its breach day and
\* the days after it among them) is counted as a close call.
C9_CloseCountWithinAge ==
    Computed => /\ CloseWithinAlive(supinfo, supdays, supclose)
                /\ CloseWithinAlive(resinfo, resdays, resclose)

\* C9 witness: an extremum has a close call, and a day after its breach
\* closes within thresh of its value
C9_Witness ==
    /\ Computed
    /\ \E k \in 1..Len(supinfo) : \E j, m \in 1..Len(data) :
          /\ supinfo[k].close > 0
          /\ supinfo[k].enday = {data[j].date}
          /\ data[j].date < data[m].date
          /\ NearDay(supinfo[k].low, data[m].close)

\* the rows of info alive on bar k
AliveOn(info, days, k) ==
    {m \in 1..Len(info) : Loc(days.rows, info[m].id).cells[k]}

\* row m is, among the rows of info alive on bar k, one whose value is
\* nearest to the close of the bar: |value - close| / close is least
Nearest(info, days, k, m, ref_col) ==
    /\ m \in AliveOn(info, days, k)
    /\ \A q \in AliveOn(info, days, k) :
          Abs(info[m][ref_col] - data[k].close) * data[k].close
              <= Abs(info[q][ref_col] - data[k].close) * data[k].close

\* C10: on every bar with an alive support, sup_val and sup_vol are those of
\* an alive support nearest to the close; with no alive support the record
\* is sup_val = 0, sup_vol = -1, sup_age = 0, sup_close = 0.  On every bar
\* with an alive resistance, res_val and res_vol are those of an alive
\* resistance nearest to the close; with none the record is
\* res_val = 2 * close, res_vol = -1, res_age = 0, res_close = 0.
C10_NearestAliveOrSentinel ==
    /\ pc = "done" =>
          \A k \in 1..Len(data) :
              IF AliveOn(supinfo, supdays, k) # {}
              THEN \E m \in 1..Len(supinfo) :
                      /\ Nearest(supinfo, supdays, k, m, "low")
                      /\ sup_cols[k].sup_val = supinfo[m].low
                      /\ sup_cols[k].sup_vol = supinfo[m].volume
              ELSE sup_cols[k] = [sup_val |-> 0, sup_vol |-> 0 - 1,
                                  sup_age |-> 0, sup_close |-> 0]
    /\ pc \in {"res_added", "done"} =>
          \A k \in 1..Len(data) :
              IF AliveOn(resinfo, resdays, k) # {}
              THEN \E m \in 1..Len(resinfo) :
                      /\ Nearest(resinfo, resdays, k, m, "high")
                      /\ res_cols[k].res_val = resinfo[m].high
                      /\ res_cols[k].res_vol = resinfo[m].volume
              ELSE res_cols[k] = [res_val |-> 2 * data[k].close, res_vol |-> 0 - 1,
                                  res_age |-> 0, res_close |-> 0]

\* C10 witness: the projection is done; on one bar two supports at different
\* distances from the close are alive, on one bar a support is alive while
\* an older one is dead, on one bar no support is alive although supports
\* exist, and on one bar a resistance is alive while an older one is dead
C10_Witness ==
    /\ pc = "done"
    /\ \E k \in 1..Len(data) : \E m, q \in AliveOn(supinfo, supdays, k) :
          Abs(supinfo[m].low - data[k].close) # Abs(supinfo[q].low - data[k].close)
    /\ \E k \in 1..Len(data) : \E m \in AliveOn(supinfo, supdays, k) :
          \E r \in 1..Len(supinfo) :
              supinfo[r].date < data[k].date /\ r \notin AliveOn(supinfo, supdays, k)
    /\ \E k \in 1..Len(data) :
          AliveOn(supinfo, supdays, k) = {} /\ supinfo # <<>>
    /\ \E k \in 1..Len(data) : \E m \in AliveOn(resinfo, resdays, k) :
          \E r \in 1..Len(resinfo) :
              resinfo[r].date < data[k].date /\ r \notin AliveOn(resinfo, resdays, k)

\* number of the bars 1..k on which row m of info is alive
AliveDaysUpTo(info, days, m, k) ==
    Cardinality({j \in 1..k : Loc(days.rows, info[m].id).cells[j]})

\* age is the age on bar k of a nearest alive row of info with the reported
\* volume: its alive days up to bar k, its creation day counted or not
AgeOfSelected(info, days, k, ref_col, vol, age) ==
    \E m \in 1..Len(info) :
        /\ Nearest(info, days, k, m, ref_col)
        /\ info[m].volume = vol
        /\ age \in {AliveDaysUpTo(info, days, m, k),
                    AliveDaysUpTo(info, days, m, k) + 1}

\* C11: on every bar with an alive support (resistance), sup_age (res_age)
\* is the number of days the selected support (resistance) has been alive
\* from its creation up to that bar
C11_AgeOfSelectedExtremum ==
    /\ pc = "done" =>
          \A k \in 1..Len(data) :
              AliveOn(supinfo, supdays, k) # {} =>
                  AgeOfSelected(supinfo, supdays, k, "low",
                                sup_cols[k].sup_vol, sup_cols[k].sup_age)
    /\ pc \in {"res_added", "done"} =>
          \A k \in 1..Len(data) :
              AliveOn(resinfo, resdays, k) # {} =>
                  AgeOfSelected(resinfo, resdays, k, "high",
                                res_cols[k].res_vol, res_cols[k].res_age)

\* the labels of the bars with both neighbours whose col is strictly below
\* (for resistances: strictly above) the col of both
StrictExtrema(col, resistances) ==
    {data[k].id : k \in {j \in 2..(Len(data) - 1) :
        IF resistances
        THEN data[j - 1][col] < data[j][col] /\ data[j][col] > data[j + 1][col]
        ELSE data[j - 1][col] > data[j][col] /\ data[j][col] < data[j + 1][col]}}

\* the labels of the first-generation rows of info
Flagged(info) == {info[m].id : m \in {r \in 1..Len(info) : info[r].original}}

\* C13: _get_days flags a bar as a support iff it has
\* both neighbours and its value is strictly below both, as a resistance iff
\* it is strictly above both; so a bar equal to a neighbour, the first bar
\* and the last bar are never flagged, and fewer than 3 bars give no candidate
C13_ExtremumDetector ==
    /\ \A col \in {"low", "high", "close"} : \A resistances \in BOOLEAN :
          IndexSet(get_days(data, col, resistances)) = StrictExtrema(col, resistances)
    /\ Computed =>
          /\ Flagged(supinfo) = StrictExtrema("low", FALSE)
          /\ Flagged(resinfo) = StrictExtrema("high", TRUE)
          /\ \A m \in 1..Len(supinfo) : supinfo[m].original =>
                supinfo[m].date \notin {data[1].date, data[Len(data)].date}
          /\ \A m \in 1..Len(resinfo) : resinfo[m].original =>
                resinfo[m].date \notin {data[1].date, data[Len(data)].date}
          /\ Len(data) < 3 => Flagged(supinfo) = {} /\ Flagged(resinfo) = {}

\* C13 witness: the tables are computed; one bar equals its left neighbour
\* and is below its right one, another is a flagged support and another a
\* flagged resistance
C13_Witness ==
    /\ Computed
    /\ \E k \in 2..(Len(data) - 1) :
          data[k - 1].low = data[k].low /\ data[k].low < data[k + 1].low
    /\ Flagged(supinfo) # {}
    /\ Flagged(resinfo) # {}

\* what get_supports_resistances computes from the run's own data and thresh
IsFresh(held) ==
    \E e \in {get_supports_resistances(data, thresh)} :
        ~e.raised /\ held = Elements(e)

\* the store holds exactly the six artifacts held
IsStored(held) == \A n \in 1..Len(needed) : store[needed[n]] = {held[n]}

\* C12: a run loads its artifacts only when it found all six files, and
\* then holds what the files hold; a run that found a file missing computes
\* all six with get_supports_resistances, has written all six when it goes
\* on to return, and holds the computed values only
C12_CacheAllOrNothing ==
    /\ source = "loaded" => found = Files
    /\ (source # "none" /\ found # Files) => source = "computed"
    /\ (source = "loaded" /\ Computed) => IsStored(artifacts)
    /\ (source = "computed" /\ Computed) =>
          IsFresh(artifacts) /\ IsStored(artifacts)

\* C12 witness: a run that found some of the six files, but not all, has
\* computed its artifacts and returned
C12_Witness ==
    /\ pc = "done"
    /\ source = "computed"
    /\ found # {} /\ found # Files
    /\ supinfo # <<>>

\* a run that found all six files has loaded them and returned
C12_WitnessLoaded ==
    /\ pc = "done"
    /\ source = "loaded"
    /\ supinfo # <<>>

\* C14: in every run of a sequence of runs against the same store, the six
\* artifacts the run projects with are those get_supports_resistances
\* computes from the run's own data and thresh
C14_CacheHitEqualsRecomputation ==
    Computed => IsFresh(artifacts)

====
